---- MODULE Spec2Model ----
(***************************************************************************)
(* Model of @tokenring-ai/image-generation: the generate tool, the        *)
(* ImageGenerationService (addToIndex, reindex) and the line parser of    *)
(* the search tool, over one managed directory.                           *)
(*                                                                         *)
(* Strings are sequences of one-character strings, so that JSON           *)
(* serialisation, escaping, trimming and line splitting are computed       *)
(* character by character as the code's library calls compute them.       *)
(***************************************************************************)
EXTENDS Integers, Sequences, FiniteSets, TLC

\* ------------------------------------------------------------------ bounds
\* Number of operations (generate requests and reindex calls together)
\* started in one behaviour.
MaxOps == 3

\* Length of the longest string similarity is called with.
MaxLen == 3

\* Number of lines of the longest index file search is given, the long
\* index apart.
MaxLines == 2

\* ------------------------------------------------------- character strings
NL == "\n"
QUOTE == "\""
BSL == "\\"

\* String.prototype.trim strips these from both ends.
WhiteSpace == {" ", NL, "\t", "\r"}

Digits == <<"0", "1", "2", "3", "4", "5", "6", "7", "8", "9">>

IsDigit(c) == \E d \in 1..10 : Digits[d] = c

DigitValue(c) == (CHOOSE d \in 1..10 : Digits[d] = c) - 1

\* Array.prototype.join on strings: the elements with sep between them.
RECURSIVE join(_, _)
join(parts, sep) ==
  IF Len(parts) = 0 THEN <<>>
  ELSE IF Len(parts) = 1 THEN parts[1]
  ELSE parts[1] \o sep \o join(Tail(parts), sep)

\* s ends with the characters of suffix.
EndsWith(s, suffix) ==
  /\ Len(s) >= Len(suffix)
  /\ SubSeq(s, Len(s) - Len(suffix) + 1, Len(s)) = suffix

\* String.prototype.split(sep) for a one-character separator: the segments
\* between separators, the empty string giving one empty segment.
split(s, sep) ==
  LET at == { i \in 1..Len(s) : s[i] = sep }
      \* the position of the k-th separator; 0 before the first segment and
      \* Len(s) + 1 after the last
      pos(k) == IF k = 0 THEN 0
                ELSE IF k > Cardinality(at) THEN Len(s) + 1
                ELSE CHOOSE p \in at : Cardinality({ q \in at : q < p }) = k - 1
  IN [k \in 1..(Cardinality(at) + 1) |-> SubSeq(s, pos(k - 1) + 1, pos(k) - 1)]

\* The first position from i on that holds no white space, Len(s) + 1 if none.
RECURSIVE SkipForward(_, _)
SkipForward(s, i) ==
  IF i <= Len(s) /\ s[i] \in WhiteSpace THEN SkipForward(s, i + 1) ELSE i

\* The last position up to i that holds no white space, 0 if none.
RECURSIVE SkipBackward(_, _)
SkipBackward(s, i) ==
  IF i >= 1 /\ s[i] \in WhiteSpace THEN SkipBackward(s, i - 1) ELSE i

\* String.prototype.trim: the text without its leading and trailing white
\* space.
trim(s) == SubSeq(s, SkipForward(s, 1), SkipBackward(s, Len(s)))

\* --------------------------------------------------------- JSON.stringify
\* A JSON string literal escapes the quote, the backslash and the newline.
RECURSIVE Escape(_)
Escape(s) ==
  IF Len(s) = 0 THEN <<>>
  ELSE (IF s[1] = QUOTE THEN <<BSL, QUOTE>>
        ELSE IF s[1] = BSL THEN <<BSL, BSL>>
        ELSE IF s[1] = NL THEN <<BSL, "n">>
        ELSE <<s[1]>>) \o Escape(Tail(s))

StringifyString(s) == <<QUOTE>> \o Escape(s) \o <<QUOTE>>

\* Decimal digits of a non-negative integer.
RECURSIVE StringifyNumber(_)
StringifyNumber(n) ==
  IF n < 10 THEN <<Digits[n + 1]>>
  ELSE StringifyNumber(n \div 10) \o <<Digits[(n % 10) + 1]>>

StringifyArray(a) ==
  <<"[">> \o join([i \in 1..Len(a) |-> StringifyString(a[i])], <<",">>) \o <<"]">>

KeyFilename == <<"f", "i", "l", "e", "n", "a", "m", "e">>
KeyMimeType == <<"m", "i", "m", "e", "T", "y", "p", "e">>
KeyWidth == <<"w", "i", "d", "t", "h">>
KeyHeight == <<"h", "e", "i", "g", "h", "t">>
KeyKeywords == <<"k", "e", "y", "w", "o", "r", "d", "s">>

\* JSON.stringify({filename, mimeType, width, height, keywords}): the
\* members in property order, no whitespace.
StringifyEntry(filename, mimeType, width, height, keywords) ==
  <<"{">>
  \o StringifyString(KeyFilename) \o <<":">> \o StringifyString(filename) \o <<",">>
  \o StringifyString(KeyMimeType) \o <<":">> \o StringifyString(mimeType) \o <<",">>
  \o StringifyString(KeyWidth) \o <<":">> \o StringifyNumber(width) \o <<",">>
  \o StringifyString(KeyHeight) \o <<":">> \o StringifyNumber(height) \o <<",">>
  \o StringifyString(KeyKeywords) \o <<":">> \o StringifyArray(keywords)
  \o <<"}">>

\* -------------------------------------------------------------- JSON.parse
\* Parse results: ok, the value, and the position after it.
ParseFail == [ok |-> FALSE, val |-> <<>>, next |-> 0]

\* Characters of a string literal after its opening quote, up to the
\* closing quote; a raw newline or an unknown escape is a syntax error.
RECURSIVE ScanString(_, _, _)
ScanString(s, i, acc) ==
  IF i > Len(s) THEN ParseFail
  ELSE IF s[i] = QUOTE THEN [ok |-> TRUE, val |-> acc, next |-> i + 1]
  ELSE IF s[i] = NL THEN ParseFail
  ELSE IF s[i] = BSL THEN
    IF i + 1 > Len(s) THEN ParseFail
    ELSE IF s[i + 1] = "n" THEN ScanString(s, i + 2, Append(acc, NL))
    ELSE IF s[i + 1] \in {QUOTE, BSL} THEN ScanString(s, i + 2, Append(acc, s[i + 1]))
    ELSE ParseFail
  ELSE ScanString(s, i + 1, Append(acc, s[i]))

RECURSIVE ScanNumber(_, _, _)
ScanNumber(s, i, acc) ==
  IF i <= Len(s) /\ IsDigit(s[i])
  THEN ScanNumber(s, i + 1, 10 * acc + DigitValue(s[i]))
  ELSE [ok |-> TRUE, val |-> acc, next |-> i]

\* Values are tagged with their JSON type: "str", "num", "arr", "obj".
RECURSIVE ParseValue(_, _)
RECURSIVE ParseElements(_, _, _)
RECURSIVE ParseMembers(_, _, _)

ParseValue(s, i) ==
  IF i > Len(s) THEN ParseFail
  ELSE IF s[i] = QUOTE THEN
    LET r == ScanString(s, i + 1, <<>>)
    IN IF r.ok THEN [ok |-> TRUE, val |-> [t |-> "str", v |-> r.val], next |-> r.next]
       ELSE ParseFail
  ELSE IF IsDigit(s[i]) THEN
    LET r == ScanNumber(s, i, 0)
    IN [ok |-> TRUE, val |-> [t |-> "num", v |-> r.val], next |-> r.next]
  ELSE IF s[i] = "[" THEN
    IF i + 1 <= Len(s) /\ s[i + 1] = "]"
    THEN [ok |-> TRUE, val |-> [t |-> "arr", v |-> <<>>], next |-> i + 2]
    ELSE ParseElements(s, i + 1, <<>>)
  ELSE IF s[i] = "{" THEN
    IF i + 1 <= Len(s) /\ s[i + 1] = "}"
    THEN [ok |-> TRUE, val |-> [t |-> "obj", v |-> <<>>], next |-> i + 2]
    ELSE ParseMembers(s, i + 1, <<>>)
  ELSE ParseFail

\* Array elements from position i, acc holding those already read.
ParseElements(s, i, acc) ==
  LET r == ParseValue(s, i)
  IN IF ~r.ok \/ r.next > Len(s) THEN ParseFail
     ELSE IF s[r.next] = "," THEN ParseElements(s, r.next + 1, Append(acc, r.val))
     ELSE IF s[r.next] = "]"
       THEN [ok |-> TRUE, val |-> [t |-> "arr", v |-> Append(acc, r.val)], next |-> r.next + 1]
     ELSE ParseFail

\* Object members "key":value from position i.
ParseMembers(s, i, acc) ==
  IF i > Len(s) \/ s[i] # QUOTE THEN ParseFail
  ELSE
    LET k == ScanString(s, i + 1, <<>>)
    IN IF ~k.ok \/ k.next > Len(s) \/ s[k.next] # ":" THEN ParseFail
       ELSE
         LET r == ParseValue(s, k.next + 1)
             m == Append(acc, [key |-> k.val, value |-> r.val])
         IN IF ~r.ok \/ r.next > Len(s) THEN ParseFail
            ELSE IF s[r.next] = "," THEN ParseMembers(s, r.next + 1, m)
            ELSE IF s[r.next] = "}"
              THEN [ok |-> TRUE, val |-> [t |-> "obj", v |-> m], next |-> r.next + 1]
            ELSE ParseFail

\* JSON.parse(line): one value spanning the whole text, else a SyntaxError.
JSONparse(line) ==
  LET r == ParseValue(line, 1)
  IN IF r.ok /\ r.next = Len(line) + 1 THEN [ok |-> TRUE, val |-> r.val]
     ELSE [ok |-> FALSE, val |-> <<>>]

\* ------------------------------------------------------------ file system
\* Optional arguments and properties: absent (undefined) or present.
None == [present |-> FALSE, v |-> <<>>]
Some(x) == [present |-> TRUE, v |-> x]

\* The configured output directory (config.outputDirectory) and another
\* directory a caller may name.
OutDir == <<"o">>
AltDir == <<"x">>

IndexFileName ==
  <<"i", "m", "a", "g", "e", "_", "i", "n", "d", "e", "x", ".", "j", "s", "o", "n">>

\* `${directory}/image_index.json`
IndexPath(directory) == directory \o <<"/">> \o IndexFileName

\* `${targetDir}/${filename}`
FilePath(directory, filename) == directory \o <<"/">> \o filename

\* file.split('/').pop()
BaseName(path) == LET segs == split(path, "/") IN segs[Len(segs)]

\* The directory part of a path: every segment but the last.
DirName(path) ==
  LET segs == split(path, "/") IN join(SubSeq(segs, 1, Len(segs) - 1), <<"/">>)

MimePng == <<"i", "m", "a", "g", "e", "/", "p", "n", "g">>
MimeGif == <<"i", "m", "a", "g", "e", "/", "g", "i", "f">>
MimeJpeg == <<"i", "m", "a", "g", "e", "/", "j", "p", "e", "g">>
MimeJson ==
  <<"a", "p", "p", "l", "i", "c", "a", "t", "i", "o", "n", "/", "j", "s", "o", "n">>

\* What exiftool reports for a text file such as the index.
TextTags ==
  [readable |-> TRUE, MIMEType |-> MimeJson, ImageWidth |-> 0, ImageHeight |-> 0,
   Keywords |-> <<>>, ImageDescription |-> <<>>]

\* What exiftool reports for freshly written image bytes of a media type
\* and pixel size; readable is FALSE for bytes exiftool cannot read.
ImageTags(mediaType, width, height, readable) ==
  [readable |-> readable, MIMEType |-> mediaType, ImageWidth |-> width,
   ImageHeight |-> height, Keywords |-> <<>>, ImageDescription |-> <<>>]

\* fileSystem.writeFile(path, text): creates or overwrites.
writeFile(files, path, text) ==
  [p \in DOMAIN files \cup {path} |->
     IF p = path THEN [text |-> text, tags |-> TextTags] ELSE files[p]]

\* fileSystem.writeFile(path, imageBuffer).
writeImage(files, path, tags) ==
  [p \in DOMAIN files \cup {path} |->
     IF p = path THEN [text |-> <<>>, tags |-> tags] ELSE files[p]]

\* fileSystem.appendFile(path, text): creates the file if absent.
appendFile(files, path, text) ==
  writeFile(files, path, (IF path \in DOMAIN files THEN files[path].text ELSE <<>>) \o text)

\* The extensions of the pattern `${directory}/*.{jpg,jpeg,png,webp}`.
GlobExtensions ==
  { <<".", "j", "p", "g">>, <<".", "j", "p", "e", "g">>,
    <<".", "p", "n", "g">>, <<".", "w", "e", "b", "p">> }

\* Mutant: the pattern matches every file of the directory.
glob_everyFile(files, directory) == { p \in DOMAIN files : DirName(p) = directory }

\* fileSystem.glob of that pattern: the paths directly under directory whose
\* name is a non-hidden name ending in one of the extensions.
glob(files, directory) ==
  { p \in DOMAIN files :
      /\ DirName(p) = directory
      /\ BaseName(p)[1] # "."
      /\ \E e \in GlobExtensions : EndsWith(BaseName(p), e) /\ Len(BaseName(p)) > Len(e) }

\* ------------------------------------------------------------------ state
VARIABLES
  fs,    \* the storage collaborator: path -> [text, tags]
  gen,   \* the generate requests: request -> its position and locals
  rx,    \* the reindex command: its position and locals
  lastReindex, \* history: whether the files are as the last reindex left them
  sr,    \* the image/search invocation: its position, arguments and outcome
  sim    \* a call of similarity: its arguments and its score

vars == <<fs, gen, rx, lastReindex, sr, sim>>

Requests == 1..MaxOps

\* Keywords a caller may pass: one holds a space, a quote and a newline,
\* one a backslash followed by the letter n.
KwPlain == <<"a">>
KwTricky == <<"b", " ", QUOTE, NL>>
KwBackslash == <<"c", BSL, "n">>

PromptText == <<"p">>

\* Arguments of the generate tool (inputSchema), each optional one absent or
\* present.
GenerateInputs ==
  { [prompt |-> None, aspectRatio |-> None, outputDirectory |-> None,
     keywords |-> Some(<<KwPlain>>)],
    [prompt |-> Some(<<>>), aspectRatio |-> Some("tall"), outputDirectory |-> None,
     keywords |-> None],
    [prompt |-> Some(PromptText), aspectRatio |-> None, outputDirectory |-> None,
     keywords |-> None],
    [prompt |-> Some(PromptText), aspectRatio |-> Some("tall"), outputDirectory |-> Some(AltDir),
     keywords |-> Some(<<KwPlain, KwTricky, KwBackslash>>)] }

\* Mutant: only an absent prompt is rejected.
promptMissing_absentOnly(prompt) == ~prompt.present

\* if (!prompt): an absent prompt and the empty string are both falsy.
promptMissing(prompt) == ~prompt.present \/ prompt.v = <<>>

\* The requests issued when operations may overlap.
ConcurrentInputs ==
  { i \in GenerateInputs : i.prompt.v = <<>> \/ i.outputDirectory.present }

\* What the synthesis collaborator may return: a media type, and whether
\* exiftool can read the bytes.
ImageResults ==
  { [mediaType |-> MimePng, readable |-> TRUE],
    [mediaType |-> MimePng, readable |-> FALSE],
    [mediaType |-> MimeGif, readable |-> TRUE] }

\* The images returned when operations may overlap.
ConcurrentResults == { i \in ImageResults : i.mediaType = MimePng }

NoCalls == [client |-> 0, synth |-> 0, write |-> 0, exif |-> 0, append |-> 0]

NoInput ==
  [prompt |-> None, aspectRatio |-> None, outputDirectory |-> None, keywords |-> None]

IdleRequest ==
  [pc |-> "idle", input |-> NoInput, size |-> <<>>, width |-> 0, height |-> 0, imageResult |-> [mediaType |-> <<>>, readable |-> FALSE],
   filename |-> <<>>, warnings |-> 0, calls |-> NoCalls, error |-> "", path |-> <<>>]

IdleReindex ==
  [pc |-> "idle", files |-> <<>>, i |-> 1, entries |-> <<>>, warnings |-> <<>>,
   runs |-> 0, reported |-> 0, error |-> ""]

EmptyFs == [p \in {} |-> [text |-> <<>>, tags |-> TextTags]]

\* An omitted numeric argument.
NoNumber == [present |-> FALSE, v |-> 0]

\* No search invocation is under way.
IdleSearch ==
  [pc |-> "idle", query |-> <<>>, limit |-> NoNumber, indexContent |-> None,
   error |-> <<>>]

\* No call of similarity is under way; a score is a fraction n / d.
IdleSimilarity == [pc |-> "idle", a |-> <<>>, b |-> <<>>, score |-> [n |-> 0, d |-> 1]]

Init ==
  /\ fs = EmptyFs
  /\ lastReindex = [valid |-> FALSE, untouched |-> FALSE, repeated |-> FALSE]
  /\ gen = [r \in Requests |-> IdleRequest]
  /\ rx = IdleReindex
  /\ sr = IdleSearch
  /\ sim = IdleSimilarity

\* ------------------------------------------------- ImageGenerationService
\* getOutputDirectory()
getOutputDirectory == OutDir

\* addToIndex: one JSON line and a newline appended to the index of directory.
addToIndex(files, directory, filename, mimeType, width, height, keywords) ==
  appendFile(files, IndexPath(directory),
             StringifyEntry(filename, mimeType, width, height, keywords) \o <<NL>>)

\* value || fallback for strings: the empty string is falsy.
OrDefault(value, fallback) == IF value = <<>> THEN fallback ELSE value

\* Mutant: the entry names the file by its whole path.
reindexEntry_fullPath(file, metadata) ==
  StringifyEntry(file, OrDefault(metadata.MIMEType, MimeJpeg),
                 metadata.ImageWidth, metadata.ImageHeight, metadata.Keywords)

\* The entry reindex builds from a path and the metadata exiftool read.
reindexEntry(file, metadata) ==
  StringifyEntry(BaseName(file), OrDefault(metadata.MIMEType, MimeJpeg),
                 metadata.ImageWidth, metadata.ImageHeight, metadata.Keywords)

\* Mutant: the trailing newline is left out.
reindexContent_noNewline(entries) == join(entries, <<NL>>)

\* entries.join("\n") + "\n"
reindexContent(entries) == join(entries, <<NL>>) \o <<NL>>

\* The orders in which glob may return a set of paths.
Orderings(S) ==
  { f \in [1..Cardinality(S) -> S] : \A i, j \in 1..Cardinality(S) : f[i] = f[j] => i = j }

\* The operations started so far.
OpsStarted == Cardinality({r \in Requests : gen[r].pc # "idle"}) + rx.runs

\* The operations in flight: started and not yet returned to their caller.
InFlight ==
  Cardinality({r \in Requests : gen[r].pc \notin {"idle", "returned"}})
  + (IF rx.pc = "idle" THEN 0 ELSE 1)

\* No operation is in flight.
Quiescent ==
  /\ \A r \in Requests : gen[r].pc \in {"idle", "returned"}
  /\ rx.pc = "idle"

\* /image reindex: the command starts imageService.reindex(directory) and
\* issues the glob.
reindex_start ==
  /\ rx.pc = "idle"
  /\ OpsStarted < MaxOps
  /\ rx' = [IdleReindex EXCEPT !.pc = "glob", !.runs = rx.runs + 1]
  /\ UNCHANGED <<fs, gen, lastReindex, sr, sim>>

\* The glob returns; entries starts empty and the loop begins.
reindex_glob ==
  /\ rx.pc = "glob"
  /\ \E order \in Orderings(glob(fs, getOutputDirectory)) :
       rx' = [rx EXCEPT !.files = order, !.entries = <<>>, !.i = 1,
                        !.pc = IF Len(order) = 0 THEN "writeFile" ELSE "read"]
  /\ UNCHANGED <<fs, gen, lastReindex, sr, sim>>

\* Mutant: a failing metadata read is not caught and ends the reindex.
reindex_read_uncaught ==
  /\ rx.pc = "read"
  /\ LET file == rx.files[rx.i]
         metadata == fs[file].tags
         last == rx.i = Len(rx.files)
     IN rx' = IF metadata.readable
              THEN [rx EXCEPT !.entries = Append(@, reindexEntry(file, metadata)),
                              !.i = @ + 1, !.pc = IF last THEN "writeFile" ELSE "read"]
              ELSE [rx EXCEPT !.pc = "failed", !.error = "read"]
  /\ UNCHANGED <<fs, gen, lastReindex, sr, sim>>

\* One iteration of the loop: exiftool.read(file) returns or throws.
reindex_read ==
  /\ rx.pc = "read"
  /\ LET file == rx.files[rx.i]
         metadata == fs[file].tags
         last == rx.i = Len(rx.files)
     IN rx' = IF metadata.readable
              THEN [rx EXCEPT !.entries = Append(@, reindexEntry(file, metadata)),
                              !.i = @ + 1, !.pc = IF last THEN "writeFile" ELSE "read"]
              ELSE [rx EXCEPT !.warnings = Append(@, file),
                              !.i = @ + 1, !.pc = IF last THEN "writeFile" ELSE "read"]
  /\ UNCHANGED <<fs, gen, lastReindex, sr, sim>>

\* Mutant: the entries are appended to the index instead of replacing it.
reindex_writeFile_append ==
  /\ rx.pc = "writeFile"
  /\ fs' = appendFile(fs, IndexPath(getOutputDirectory), reindexContent(rx.entries))
  /\ rx' = [rx EXCEPT !.pc = "done", !.reported = Len(rx.entries)]
  /\ lastReindex' = [valid |-> TRUE, untouched |-> TRUE,
                     repeated |-> lastReindex.valid /\ lastReindex.untouched]
  /\ UNCHANGED <<gen, sr, sim>>

\* fileSystem.writeFile(indexPath, ...) returns; the count is reported.
reindex_writeFile ==
  /\ rx.pc = "writeFile"
  /\ fs' = writeFile(fs, IndexPath(getOutputDirectory), reindexContent(rx.entries))
  /\ rx' = [rx EXCEPT !.pc = "done", !.reported = Len(rx.entries)]
  /\ lastReindex' = [valid |-> TRUE, untouched |-> TRUE,
                     repeated |-> lastReindex.valid /\ lastReindex.untouched]
  /\ UNCHANGED <<gen, sr, sim>>

\* reindex has returned or thrown to the command's caller; its locals are gone.
reindex_return ==
  /\ rx.pc \in {"done", "failed"}
  /\ rx' = [IdleReindex EXCEPT !.runs = rx.runs]
  /\ UNCHANGED <<fs, gen, lastReindex, sr, sim>>

\* ---------------------------------------------------------- image/generate
Px1024 == 1024
Px1536 == 1536

Size1024x1024 == <<"1", "0", "2", "4", "x", "1", "0", "2", "4">>
Size1024x1536 == <<"1", "0", "2", "4", "x", "1", "5", "3", "6">>
Size1536x1024 == <<"1", "5", "3", "6", "x", "1", "0", "2", "4">>

\* Mutant: "wide" is given the size of "tall".
sizeFor_wideAsTall(aspectRatio) ==
  LET ar == IF aspectRatio.present THEN aspectRatio.v ELSE "square"
  IN CASE ar \in {"tall", "wide"} -> [size |-> Size1024x1536, width |-> Px1024, height |-> Px1536]
       [] OTHER -> [size |-> Size1024x1024, width |-> Px1024, height |-> Px1024]

\* The switch on aspectRatio, whose parameter default is "square".
sizeFor(aspectRatio) ==
  LET ar == IF aspectRatio.present THEN aspectRatio.v ELSE "square"
  IN CASE ar = "square" -> [size |-> Size1024x1024, width |-> Px1024, height |-> Px1024]
       [] ar = "tall" -> [size |-> Size1024x1536, width |-> Px1024, height |-> Px1536]
       [] ar = "wide" -> [size |-> Size1536x1024, width |-> Px1536, height |-> Px1024]
       [] OTHER -> [size |-> Size1024x1024, width |-> Px1024, height |-> Px1024]

Undefined == <<"u", "n", "d", "e", "f", "i", "n", "e", "d">>

\* imageResult.mediaType.split("/")[1]
extensionOf(mediaType) ==
  LET parts == split(mediaType, "/") IN IF Len(parts) >= 2 THEN parts[2] ELSE Undefined

\* Mutant: every call returns the same token.
uuid_sameToken(r) == <<"u", Digits[1]>>

\* uuid(): a fresh token per call, here one per request.
uuid(r) == <<"u", Digits[r + 1]>>

\* `${uuid()}.${extension}`
filenameFor(r, mediaType) == uuid(r) \o <<".">> \o extensionOf(mediaType)

\* keywords || []
keywordsOrEmpty(keywords) == IF keywords.present THEN keywords.v ELSE <<>>

\* exiftool.write(filePath, exifData): Keywords only when the request has a
\* non-empty keyword list, ImageDescription always.
exifWrite(files, path, keywords, prompt) ==
  [files EXCEPT ![path].tags =
     [@ EXCEPT !.Keywords = IF keywords.present /\ Len(keywords.v) > 0 THEN keywords.v ELSE @,
               !.ImageDescription = prompt.v]]

\* An exception leaving execute: the request fails with that error.
throwError(g, error) == [g EXCEPT !.pc = "failed", !.error = error]

\* Mutant: the catch block warns and throws the error on.
onExifError_rethrown(g) == [g EXCEPT !.warnings = @ + 1, !.pc = "failed", !.error = "exif"]

\* The catch block around exiftool.write: a warning, and execution goes on
\* to addToIndex.
onExifError(g) ==
  [g EXCEPT !.warnings = @ + 1, !.pc = "addToIndex", !.calls.append = @ + 1]

\* Mutant: a failed synthesis call is made again.
onSynthesisError_retried(g) == [g EXCEPT !.calls.synth = @ + 1]

\* A throw of imageClient.generateImage is not caught.
onSynthesisError(g) == throwError(g, "synthesis")

\* Mutant: a failed image write is swallowed and execution goes on.
onWriteError_swallowed(g) == [g EXCEPT !.pc = "exifWrite", !.calls.exif = @ + 1]

\* A throw of fileSystem.writeFile(filePath, imageBuffer) is not caught.
onWriteError(g) == throwError(g, "writeFile")

\* execute is called: the prompt check, then getFirstOnlineClient is issued.
generate_start(r, input) ==
  /\ gen[r].pc = "idle"
  /\ OpsStarted < MaxOps
  /\ \A q \in Requests : q < r => gen[q].pc # "idle"
  /\ gen' = [gen EXCEPT ![r] =
       IF promptMissing(input.prompt)
       THEN throwError([@ EXCEPT !.input = input], "Prompt is required")
       ELSE [@ EXCEPT !.input = input, !.pc = "getClient", !.calls.client = @ + 1]]
  /\ UNCHANGED <<fs, rx, lastReindex, sr, sim>>

\* getFirstOnlineClient returns a client or throws; with a client the size
\* is chosen and generateImage is issued.
generate_getClient(r) ==
  /\ gen[r].pc = "getClient"
  /\ \E online \in BOOLEAN :
       gen' = [gen EXCEPT ![r] =
         IF online
         THEN LET sz == sizeFor(@.input.aspectRatio)
              IN [@ EXCEPT !.size = sz.size, !.width = sz.width, !.height = sz.height,
                           !.pc = "generateImage", !.calls.synth = @ + 1]
         ELSE throwError(@, "no online client")]
  /\ UNCHANGED <<fs, rx, lastReindex, sr, sim>>

\* Mutant: the index append is issued before the image is written.
generate_generateImage_appendFirst(r, imageResult) ==
  /\ gen[r].pc = "generateImage"
  /\ \/ gen' = [gen EXCEPT ![r] =
            [@ EXCEPT !.imageResult = imageResult,
                      !.filename = filenameFor(r, imageResult.mediaType),
                      !.pc = "addToIndex", !.calls.append = @ + 1]]
     \/ gen' = [gen EXCEPT ![r] = onSynthesisError(@)]
  /\ UNCHANGED <<fs, rx, lastReindex, sr, sim>>

\* generateImage returns one image, imageResult, or throws; with an image
\* the filename is made and the file write is issued.
generate_generateImage(r, imageResult) ==
  /\ gen[r].pc = "generateImage"
  /\ \/ gen' = [gen EXCEPT ![r] =
            [@ EXCEPT !.imageResult = imageResult,
                      !.filename = filenameFor(r, imageResult.mediaType),
                      !.pc = "writeFile", !.calls.write = @ + 1]]
     \/ gen' = [gen EXCEPT ![r] = onSynthesisError(@)]
  /\ UNCHANGED <<fs, rx, lastReindex, sr, sim>>

\* writeFile(filePath, imageBuffer) returns or throws; after it the EXIF
\* write is issued.
generate_writeFile(r) ==
  /\ gen[r].pc = "writeFile"
  /\ LET g == gen[r]
         filePath == FilePath(getOutputDirectory, g.filename)
     IN \/ /\ fs' = writeImage(fs, filePath,
                      ImageTags(g.imageResult.mediaType, g.width, g.height, g.imageResult.readable))
           /\ gen' = [gen EXCEPT ![r] = [@ EXCEPT !.pc = "exifWrite", !.calls.exif = @ + 1]]
        \/ /\ fs' = fs
           /\ gen' = [gen EXCEPT ![r] = onWriteError(@)]
  /\ lastReindex' = [lastReindex EXCEPT !.untouched = @ /\ fs' = fs]
  /\ UNCHANGED <<rx, sr, sim>>

\* exiftool.write returns or throws; either way addToIndex is issued.
generate_exifWrite(r) ==
  /\ gen[r].pc = "exifWrite"
  /\ LET g == gen[r]
         filePath == FilePath(getOutputDirectory, g.filename)
     IN \/ /\ fs' = exifWrite(fs, filePath, g.input.keywords, g.input.prompt)
           /\ gen' = [gen EXCEPT ![r] = [@ EXCEPT !.pc = "addToIndex", !.calls.append = @ + 1]]
        \/ /\ fs' = fs
           /\ gen' = [gen EXCEPT ![r] = onExifError(@)]
  /\ lastReindex' = [lastReindex EXCEPT !.untouched = @ /\ fs' = fs]
  /\ UNCHANGED <<rx, sr, sim>>

\* appendFile of addToIndex returns; then execute returns the path.
generate_addToIndex(r) ==
  /\ gen[r].pc = "addToIndex"
  /\ LET g == gen[r]
     IN /\ fs' = addToIndex(fs, getOutputDirectory, g.filename, g.imageResult.mediaType,
                            g.width, g.height, keywordsOrEmpty(g.input.keywords))
        /\ gen' = [gen EXCEPT ![r] =
             [@ EXCEPT !.pc = "done", !.path = FilePath(getOutputDirectory, g.filename)]]
  /\ lastReindex' = [lastReindex EXCEPT !.untouched = @ /\ fs' = fs]
  /\ UNCHANGED <<rx, sr, sim>>

\* execute has returned its result or thrown to the caller; its locals are gone.
generate_return(r) ==
  /\ gen[r].pc \in {"done", "failed"}
  /\ gen' = [gen EXCEPT ![r] = [IdleRequest EXCEPT !.pc = "returned"]]
  /\ UNCHANGED <<fs, rx, lastReindex, sr, sim>>

\* ---------------------------------------------------------- specifications
\* Operations overlap at their await points, at most two in flight at a time.
Next ==
  \/ \E r \in Requests, input \in ConcurrentInputs : InFlight <= 1 /\ generate_start(r, input)
  \/ \E r \in Requests : generate_getClient(r)
  \/ \E r \in Requests, imageResult \in ConcurrentResults : generate_generateImage(r, imageResult)
  \/ \E r \in Requests : generate_writeFile(r)
  \/ \E r \in Requests : generate_exifWrite(r)
  \/ \E r \in Requests : generate_addToIndex(r)
  \/ \E r \in Requests : generate_return(r)
  \/ InFlight <= 1 /\ reindex_start
  \/ reindex_glob
  \/ reindex_read
  \/ reindex_writeFile
  \/ reindex_return

Spec == Init /\ [][Next]_vars

\* Each tool invocation or command runs to completion before the next starts.
NextSequential ==
  \/ \E r \in Requests, input \in GenerateInputs : Quiescent /\ generate_start(r, input)
  \/ \E r \in Requests : generate_getClient(r)
  \/ \E r \in Requests, imageResult \in ImageResults : generate_generateImage(r, imageResult)
  \/ \E r \in Requests : generate_writeFile(r)
  \/ \E r \in Requests : generate_exifWrite(r)
  \/ \E r \in Requests : generate_addToIndex(r)
  \/ \E r \in Requests : generate_return(r)
  \/ Quiescent /\ reindex_start
  \/ reindex_glob
  \/ reindex_read
  \/ reindex_writeFile
  \/ reindex_return

SpecSequential == Init /\ [][NextSequential]_vars

\* An omitted aspectRatio argument.
NoAspectRatio == [present |-> FALSE, v |-> ""]

\* The generate requests that differ in aspectRatio alone: omitted, each
\* value of the enum, and "panorama", a value outside it.
AspectInputs ==
  { [prompt |-> Some(PromptText), aspectRatio |-> a, outputDirectory |-> None,
     keywords |-> None] :
      a \in {NoAspectRatio, Some("square"), Some("tall"), Some("wide"), Some("panorama")} }

\* The image returned to these requests: a PNG that exiftool can read.
AspectResults == { i \in ImageResults : i.mediaType = MimePng /\ i.readable }

\* Generate requests of every aspect ratio, one at a time.
NextAspect ==
  \/ \E r \in Requests, input \in AspectInputs : Quiescent /\ generate_start(r, input)
  \/ \E r \in Requests : generate_getClient(r)
  \/ \E r \in Requests, imageResult \in AspectResults : generate_generateImage(r, imageResult)
  \/ \E r \in Requests : generate_writeFile(r)
  \/ \E r \in Requests : generate_exifWrite(r)
  \/ \E r \in Requests : generate_addToIndex(r)
  \/ \E r \in Requests : generate_return(r)

SpecAspect == Init /\ [][NextAspect]_vars

\* ------------------------------------------------- image/search: the reader
\* The value of property key of a parsed object (the last member of that
\* name), absent when there is none.
Member(obj, key) ==
  LET hits == { i \in 1..Len(obj.v) : obj.v[i].key = key }
  IN IF hits = {} THEN None
     ELSE Some(obj.v[CHOOSE i \in hits : \A j \in hits : j <= i].value)

\* indexContent.trim().split("\n")
searchLines(indexContent) == split(trim(indexContent), NL)

\* The loop body of search up to the scoring: JSON.parse(line), then
\* entry.keywords.join, which throws unless keywords is an array. The
\* entry's properties are carried as they were parsed, each absent or present.
parseLine(line) ==
  LET parsed == JSONparse(line)
      entry == parsed.val
      keywords == IF parsed.ok /\ entry.t = "obj" THEN Member(entry, KeyKeywords) ELSE None
  IN IF parsed.ok /\ entry.t = "obj" /\ keywords.present /\ keywords.v.t = "arr"
     THEN [ok |-> TRUE,
           filename |-> Member(entry, KeyFilename),
           mimeType |-> Member(entry, KeyMimeType),
           width |-> Member(entry, KeyWidth),
           height |-> Member(entry, KeyHeight),
           keywords |-> keywords]
     ELSE [ok |-> FALSE, filename |-> None, mimeType |-> None, width |-> None,
           height |-> None, keywords |-> None]

\* The entries search goes on to score: the lines that did not throw, in
\* file order.
searchEntries(indexContent) ==
  LET lines == searchLines(indexContent)
      parsed == [i \in 1..Len(lines) |-> parseLine(lines[i])]
  IN SelectSeq(parsed, LAMBDA e : e.ok)

\* ------------------------------------------------------------ observations
\* The index file of the output directory exists.
IndexExists == IndexPath(OutDir) \in DOMAIN fs

\* An ImageRecord as search reads it back from a line that was written
\* with these five values.
RecordAsRead(filename, mimeType, width, height, keywords) ==
  [ok |-> TRUE,
   filename |-> Some([t |-> "str", v |-> filename]),
   mimeType |-> Some([t |-> "str", v |-> mimeType]),
   width |-> Some([t |-> "num", v |-> width]),
   height |-> Some([t |-> "num", v |-> height]),
   keywords |-> Some([t |-> "arr", v |-> [i \in 1..Len(keywords) |-> [t |-> "str", v |-> keywords[i]]]])]

\* The entries search reads from the index of the output directory in the
\* file system f, none when the file is absent.
EntriesIn(f) ==
  IF IndexPath(OutDir) \in DOMAIN f THEN searchEntries(f[IndexPath(OutDir)].text) ELSE <<>>

\* The filenames of those entries.
FilenamesIn(f) ==
  LET entries == EntriesIn(f)
  IN { entries[i].filename.v.v :
         i \in { j \in 1..Len(entries) : entries[j].filename.present } }

\* The paths a reindex enumerated.
Enumerated == { rx.files[i] : i \in 1..Len(rx.files) }

\* The enumerated paths whose metadata read fails, and those it succeeds for.
Unreadable == { p \in Enumerated : ~fs[p].tags.readable }
ReadablePaths == SelectSeq(rx.files, LAMBDA p : fs[p].tags.readable)

\* The record reindex is to write for a path, as search reads it back.
ExpectedRecord(p) ==
  RecordAsRead(BaseName(p),
               IF fs[p].tags.MIMEType = <<>> THEN MimeJpeg ELSE fs[p].tags.MIMEType,
               fs[p].tags.ImageWidth, fs[p].tags.ImageHeight, fs[p].tags.Keywords)

\* Every record search reads from the index in the file system f names a
\* file of the output directory in f.
RecordsNameFiles(f) ==
  LET entries == EntriesIn(f)
  IN \A i \in 1..Len(entries) :
       /\ entries[i].filename.present
       /\ entries[i].filename.v.t = "str"
       /\ FilePath(OutDir, entries[i].filename.v.v) \in DOMAIN f

\* The index in g reads back as the index in f followed by record.
ReadsBackAppended(f, g, record) == EntriesIn(g) = Append(EntriesIn(f), record)

\* The indexes in f and g read back as the same set of records.
SameRecordSet(f, g) ==
  LET a == EntriesIn(f)
      b == EntriesIn(g)
  IN { a[i] : i \in 1..Len(a) } = { b[i] : i \in 1..Len(b) }

\* The number of records of the index in f that name filename.
RecordCount(f, filename) ==
  LET entries == EntriesIn(f)
  IN Cardinality({ i \in 1..Len(entries) :
                     entries[i].filename.present /\ entries[i].filename.v.v = filename })

\* Request r's token begins no file name of the directory and no record.
NoTraceOf(f, r) ==
  /\ \A p \in DOMAIN f : SubSeq(BaseName(p), 1, Len(uuid(r))) # uuid(r)
  /\ \A n \in FilenamesIn(f) : SubSeq(n, 1, Len(uuid(r))) # uuid(r)

\* The record request r's addToIndex writes, as search reads it back.
RecordOf(g) ==
  RecordAsRead(g.filename, g.imageResult.mediaType, g.width, g.height,
               keywordsOrEmpty(g.input.keywords))

\* This step created the index of the output directory or changed its text.
IndexChanged ==
  /\ IndexPath(OutDir) \in DOMAIN fs'
  /\ IndexPath(OutDir) \in DOMAIN fs => fs'[IndexPath(OutDir)].text # fs[IndexPath(OutDir)].text

\* ------------------------------------------------ image/search: similarity
\* String.prototype.toLowerCase, on the letters the model uses.
LowerOf(c) == IF c = "A" THEN "a" ELSE IF c = "B" THEN "b" ELSE c
toLowerCase(s) == [i \in 1..Len(s) |-> LowerOf(s[i])]

\* String.prototype.includes: t occurs in s; the empty string occurs in
\* every string.
includes(s, t) == \E i \in 0..(Len(s) - Len(t)) : SubSeq(s, i + 1, i + Len(t)) = t

\* String.prototype.split(/\s+/): the segments between runs of white space,
\* word being the segment that position i continues. White space at the
\* start or the end of s gives an empty segment there, and the empty string
\* gives one empty segment.
RECURSIVE splitWhiteSpace(_, _, _)
splitWhiteSpace(s, i, word) ==
  IF i > Len(s) THEN <<word>>
  ELSE IF s[i] \in WhiteSpace THEN <<word>> \o splitWhiteSpace(s, SkipForward(s, i), <<>>)
  ELSE splitWhiteSpace(s, i + 1, Append(word, s[i]))

\* Scores are fractions n / d with d > 0.
ScoreExact == [n |-> 1, d |-> 1]
ScorePartial == [n |-> 4, d |-> 5]
ScoreEqual(x, y) == x.n * y.d = y.n * x.d
ScoreGreater(x, y) == x.n * y.d > y.n * x.d
MathMax(m, n) == IF m >= n THEN m ELSE n

\* Mutant: containment is tested one way only, b within a.
similarity_oneWayIncludes(a, b) ==
  LET aLower == toLowerCase(a)
      bLower == toLowerCase(b)
      aWords == splitWhiteSpace(aLower, 1, <<>>)
      bWords == splitWhiteSpace(bLower, 1, <<>>)
      matches == Cardinality({ i \in 1..Len(aWords) :
                                 \E j \in 1..Len(bWords) : bWords[j] = aWords[i] })
  IN IF aLower = bLower THEN ScoreExact
     ELSE IF includes(aLower, bLower) THEN ScorePartial
     ELSE [n |-> matches, d |-> MathMax(Len(aWords), Len(bWords))]

\* Mutant: the test for equal strings is left out.
similarity_noEqualTest(a, b) ==
  LET aLower == toLowerCase(a)
      bLower == toLowerCase(b)
      aWords == splitWhiteSpace(aLower, 1, <<>>)
      bWords == splitWhiteSpace(bLower, 1, <<>>)
      matches == Cardinality({ i \in 1..Len(aWords) :
                                 \E j \in 1..Len(bWords) : bWords[j] = aWords[i] })
  IN IF includes(aLower, bLower) \/ includes(bLower, aLower) THEN ScorePartial
     ELSE [n |-> matches, d |-> MathMax(Len(aWords), Len(bWords))]

\* similarity(a, b)
similarity(a, b) ==
  LET aLower == toLowerCase(a)
      bLower == toLowerCase(b)
      aWords == splitWhiteSpace(aLower, 1, <<>>)
      bWords == splitWhiteSpace(bLower, 1, <<>>)
      matches == Cardinality({ i \in 1..Len(aWords) :
                                 \E j \in 1..Len(bWords) : bWords[j] = aWords[i] })
  IN IF aLower = bLower THEN ScoreExact
     ELSE IF includes(aLower, bLower) \/ includes(bLower, aLower) THEN ScorePartial
     ELSE [n |-> matches, d |-> MathMax(Len(aWords), Len(bWords))]

\* The strings similarity is called with: up to MaxLen characters of two
\* letters, a capital and the space.
SimilarityAlphabet == {"a", "A", "b", " "}
SimilarityStrings == UNION { [1..n -> SimilarityAlphabet] : n \in 0..MaxLen }

\* similarity is called with a and b and its score is kept.
similarity_call(a, b) ==
  /\ sim.pc = "idle"
  /\ sim' = [pc |-> "done", a |-> a, b |-> b, score |-> similarity(a, b)]
  /\ UNCHANGED <<fs, gen, rx, lastReindex, sr>>

\* The caller takes the score.
similarity_return ==
  /\ sim.pc = "done"
  /\ sim' = IdleSimilarity
  /\ UNCHANGED <<fs, gen, rx, lastReindex, sr>>

\* similarity applied to every pair of strings.
NextSimilarity ==
  \/ sim.pc = "idle" /\ \E a \in SimilarityStrings, b \in SimilarityStrings : similarity_call(a, b)
  \/ similarity_return

SpecSimilarity == Init /\ [][NextSimilarity]_vars

\* ---------------------------------------------------- image/search: execute
\* fileSystem.getFile(path): the text of the file, null when there is none.
getFile(files, path) == IF path \in DOMAIN files THEN Some(files[path].text) ELSE None

\* Mutant: content of white space alone counts as no index.
indexMissing_blank(indexContent) == ~indexContent.present \/ trim(indexContent.v) = <<>>

\* if (!indexContent): null and the empty string are falsy.
indexMissing(indexContent) == ~indexContent.present \/ indexContent.v = <<>>

\* `No index found at ${indexPath}. Run /image reindex first.`
NoIndexError(indexPath) == <<"No index found at ", indexPath, ". Run /image reindex first.">>

\* The string a parsed value becomes in a template literal or in
\* Array.prototype.join: undefined reads "undefined" in a template.
RECURSIVE StringOf(_)
StringOf(val) ==
  IF val.t = "str" THEN val.v
  ELSE IF val.t = "num" THEN StringifyNumber(val.v)
  ELSE IF val.t = "arr" THEN join([i \in 1..Len(val.v) |-> StringOf(val.v[i])], <<",">>)
  ELSE <<"[", "o", "b", "j", "e", "c", "t", " ", "O", "b", "j", "e", "c", "t", "]">>
TemplateString(field) ==
  IF field.present THEN StringOf(field.v) ELSE <<"u", "n", "d", "e", "f", "i", "n", "e", "d">>

\* entry.keywords.join(" ")
keywordText(entry) ==
  join([i \in 1..Len(entry.keywords.v.v) |-> StringOf(entry.keywords.v.v[i])], <<" ">>)

\* limit = 10 when the argument is omitted.
DefaultLimit == 10
limitOrDefault(limit) == IF limit.present THEN limit.v ELSE DefaultLimit

\* Array.prototype.sort with (a, b) => b.score - a.score: a stable sort by
\* descending score, done here by inserting each element, in order, behind
\* the elements that score at least as much.
RECURSIVE sortByScore(_)
sortByScore(results) ==
  IF results = <<>> THEN <<>>
  ELSE LET n == Len(results)
           x == results[n]
           sorted == sortByScore(SubSeq(results, 1, n - 1))
           k == Cardinality({ i \in 1..Len(sorted) : ~ScoreGreater(x.score, sorted[i].score) })
       IN SubSeq(sorted, 1, k) \o <<x>> \o SubSeq(sorted, k + 1, Len(sorted))

\* Array.prototype.slice(0, limit) for a positive limit.
slice(results, limit) == SubSeq(results, 1, IF limit < Len(results) THEN limit ELSE Len(results))

\* The element of the returned results made from a scored entry.
resultOf(targetDir, r) ==
  [filename |-> r.entry.filename,
   path |-> FilePath(targetDir, TemplateString(r.entry.filename)),
   score |-> r.score,
   mimeType |-> r.entry.mimeType,
   width |-> r.entry.width,
   height |-> r.entry.height,
   keywords |-> r.entry.keywords]

\* Mutant: entries that score 0 are kept too.
searchOutcome_keepZero(targetDir, indexContent, query, limit) ==
  LET lines == searchLines(indexContent)
      parsed == [i \in 1..Len(lines) |-> parseLine(lines[i])]
      scored == [i \in 1..Len(lines) |->
                   IF parsed[i].ok
                   THEN [ok |-> TRUE, entry |-> parsed[i],
                         score |-> similarity(query, keywordText(parsed[i]))]
                   ELSE [ok |-> FALSE, entry |-> parsed[i], score |-> [n |-> 0, d |-> 1]]]
      results == SelectSeq(scored, LAMBDA r : r.ok)
      topResults == slice(sortByScore(results), limit)
  IN [results |-> [i \in 1..Len(topResults) |-> resultOf(targetDir, topResults[i])],
      warnings |-> SelectSeq(lines, LAMBDA line : ~parseLine(line).ok)]

\* execute from the split of the index into lines to the returned results:
\* each line is parsed and scored, a line that throws gives a warning, the
\* entries that score above 0 are sorted and cut to limit.
searchOutcome(targetDir, indexContent, query, limit) ==
  LET lines == searchLines(indexContent)
      parsed == [i \in 1..Len(lines) |-> parseLine(lines[i])]
      scored == [i \in 1..Len(lines) |->
                   IF parsed[i].ok
                   THEN [ok |-> TRUE, entry |-> parsed[i],
                         score |-> similarity(query, keywordText(parsed[i]))]
                   ELSE [ok |-> FALSE, entry |-> parsed[i], score |-> [n |-> 0, d |-> 1]]]
      results == SelectSeq(scored, LAMBDA r : r.ok /\ r.score.n > 0)
      topResults == slice(sortByScore(results), limit)
  IN [results |-> [i \in 1..Len(topResults) |-> resultOf(targetDir, topResults[i])],
      warnings |-> SelectSeq(lines, LAMBDA line : ~parseLine(line).ok)]

\* The queries and limits search is called with.
SearchQueries == { <<>>, <<"a">>, <<"z">> }
SearchLimits == { NoNumber, Some(1) }

\* execute is called: getFile(indexPath) is issued.
search_start(query, limit) ==
  /\ sr.pc = "idle"
  /\ sr' = [IdleSearch EXCEPT !.pc = "getFile", !.query = query, !.limit = limit]
  /\ UNCHANGED <<fs, gen, rx, lastReindex, sim>>

\* getFile returns; without content execute throws, else it runs to its
\* return with the content read.
search_getFile ==
  /\ sr.pc = "getFile"
  /\ LET indexPath == IndexPath(getOutputDirectory)
         indexContent == getFile(fs, indexPath)
     IN IF indexMissing(indexContent)
        THEN sr' = [sr EXCEPT !.pc = "failed", !.error = NoIndexError(indexPath)]
        ELSE sr' = [sr EXCEPT !.pc = "done", !.indexContent = indexContent]
  /\ UNCHANGED <<fs, gen, rx, lastReindex, sim>>

\* What a search that is done has returned and warned of: the rest of
\* execute is synchronous and works on its locals alone.
searchReturn ==
  searchOutcome(getOutputDirectory, sr.indexContent.v, sr.query, limitOrDefault(sr.limit))

\* The caller takes the results or the error.
search_return ==
  /\ sr.pc \in {"done", "failed"}
  /\ sr' = IdleSearch
  /\ UNCHANGED <<fs, gen, rx, lastReindex, sim>>

\* The generate requests issued between searches: those that pass the
\* prompt test.
SearchGenerateInputs == { i \in GenerateInputs : i.prompt \notin {None, Some(<<>>)} }

\* No operation and no search is in flight.
QuiescentSearch == Quiescent /\ sr.pc = "idle"

\* Generate requests, reindex runs and searches, one at a time.
NextSearch ==
  \/ \E r \in Requests, input \in SearchGenerateInputs : QuiescentSearch /\ generate_start(r, input)
  \/ \E r \in Requests : generate_getClient(r)
  \/ \E r \in Requests, imageResult \in ConcurrentResults : generate_generateImage(r, imageResult)
  \/ \E r \in Requests : generate_writeFile(r)
  \/ \E r \in Requests : generate_exifWrite(r)
  \/ \E r \in Requests : generate_addToIndex(r)
  \/ \E r \in Requests : generate_return(r)
  \/ QuiescentSearch /\ reindex_start
  \/ reindex_glob
  \/ reindex_read
  \/ reindex_writeFile
  \/ reindex_return
  \/ \E query \in SearchQueries, limit \in SearchLimits : Quiescent /\ search_start(query, limit)
  \/ search_getFile
  \/ search_return

SpecSearch == Init /\ [][NextSearch]_vars

\* ---------------------------------------- image/search over any index file
\* The index file is a text file anyone may have written: search reads
\* whatever lines it holds.
RecordLine(filename, keywords) == StringifyEntry(filename, MimePng, 1, 1, keywords)

\* {"filename": the text breaks off inside the object.
TruncatedLine == <<"{">> \o StringifyString(KeyFilename) \o <<":">>

\* {"keywords":["a"]}: an object with keywords and nothing else.
KeywordsOnlyLine ==
  <<"{">> \o StringifyString(KeyKeywords) \o <<":">> \o StringifyArray(<<KwPlain>>) \o <<"}">>

\* A record whose keywords is the string "a" and no array.
KeywordsStringLine ==
  <<"{">>
  \o StringifyString(KeyFilename) \o <<":">> \o StringifyString(<<"5">>) \o <<",">>
  \o StringifyString(KeyMimeType) \o <<":">> \o StringifyString(MimePng) \o <<",">>
  \o StringifyString(KeyWidth) \o <<":">> \o StringifyNumber(1) \o <<",">>
  \o StringifyString(KeyHeight) \o <<":">> \o StringifyNumber(1) \o <<",">>
  \o StringifyString(KeyKeywords) \o <<":">> \o StringifyString(KwPlain)
  \o <<"}">>

\* A record whose width is the string "w" and no number.
WidthStringLine ==
  <<"{">>
  \o StringifyString(KeyFilename) \o <<":">> \o StringifyString(<<"6">>) \o <<",">>
  \o StringifyString(KeyMimeType) \o <<":">> \o StringifyString(MimePng) \o <<",">>
  \o StringifyString(KeyWidth) \o <<":">> \o StringifyString(<<"w">>) \o <<",">>
  \o StringifyString(KeyHeight) \o <<":">> \o StringifyNumber(1) \o <<",">>
  \o StringifyString(KeyKeywords) \o <<":">> \o StringifyArray(<<KwPlain>>)
  \o <<"}">>

\* The lines an index file is made of: four records (two of them with the
\* same keywords), and four lines that are no record.
IndexLines ==
  { RecordLine(<<"1">>, <<KwPlain>>),
    RecordLine(<<"2">>, <<KwPlain>>),
    RecordLine(<<"3">>, <<KwPlain, <<"b">>>>),
    RecordLine(<<"4">>, <<<<"z">>>>),
    TruncatedLine, KeywordsOnlyLine, KeywordsStringLine, WidthStringLine }

\* An index of one record more than the default limit, the records that
\* score lower for the query "a" at the odd places.
LongIndex ==
  [i \in 1..(DefaultLimit + 1) |->
     RecordLine(StringifyNumber(i), IF i % 2 = 1 THEN <<KwPlain, <<"b">>>> ELSE <<KwPlain>>)]

\* The index texts: up to MaxLines lines, each ended by a newline (the one
\* newline when there is no line), and the long index.
IndexTexts ==
  { join(lines, <<NL>>) \o <<NL>> :
      lines \in UNION { [1..n -> IndexLines] : n \in 0..MaxLines } \cup {LongIndex} }

\* The limits search is called with over these files.
IndexLimits == { NoNumber, Some(1), Some(2) }

\* The output directory holds no index file or one of the index texts.
InitIndexLines ==
  /\ fs \in {EmptyFs} \cup { writeFile(EmptyFs, IndexPath(getOutputDirectory), text) : text \in IndexTexts }
  /\ lastReindex = [valid |-> FALSE, untouched |-> FALSE, repeated |-> FALSE]
  /\ gen = [r \in Requests |-> IdleRequest]
  /\ rx = IdleReindex
  /\ sr = IdleSearch
  /\ sim = IdleSimilarity

\* Searches, one after the other, over a file nothing else writes.
NextIndexLines ==
  \/ \E query \in SearchQueries, limit \in IndexLimits : search_start(query, limit)
  \/ search_getFile
  \/ search_return

SpecIndexLines == InitIndexLines /\ [][NextIndexLines]_vars

\* ------------------------------------------------------------------ claims
\* C1: every step that appends to image_index.json or rewrites it leaves an
\* index whose every record names a file that exists in the directory at
\* that moment (no step deletes a file).
C1_IndexedFilesExist == [][IndexChanged => RecordsNameFiles(fs')]_vars

\* C1 witness: an image write has failed, a reindex has rewritten the index
\* and the index holds a record.
C1_Witness ==
  /\ \E r \in Requests : gen[r].error = "writeFile"
  /\ lastReindex.valid
  /\ Len(EntriesIn(fs)) >= 1

\* C2: when reindex overwrites the index, the record of every request that
\* appended after the enumeration (its file was not enumerated) is gone
\* from the index: the last full write wins.
C2_LastFullWriteWins ==
  [][(rx.pc = "writeFile" /\ rx'.pc = "done") =>
       \A r \in Requests :
         (gen[r].pc = "done" /\ FilePath(OutDir, gen[r].filename) \notin Enumerated)
           => gen[r].filename \notin FilenamesIn(fs')]_vars

\* C2 witness: a reindex and a generate request have both completed, the
\* image is one the enumeration matches and exiftool reads, and the index
\* has no record of it.
C2_Witness ==
  /\ rx.pc = "done"
  /\ \E r \in Requests :
       /\ gen[r].pc = "done"
       /\ FilePath(OutDir, gen[r].filename) \in glob(fs, OutDir)
       /\ fs[FilePath(OutDir, gen[r].filename)].tags.readable
       /\ FilePath(OutDir, gen[r].filename) \notin Enumerated
       /\ gen[r].filename \notin FilenamesIn(fs)

\* C3: when a reindex has completed with no other operation in flight, the
\* index read back holds exactly one record per enumerated file whose
\* metadata read succeeded, in enumeration order, and nothing else.
C3_ReindexReplaces ==
  rx.pc = "done" =>
    EntriesIn(fs) = [i \in 1..Len(ReadablePaths) |-> ExpectedRecord(ReadablePaths[i])]

\* C3 witness: a reindex has completed, the directory holds a generated
\* image the enumeration does not match (its record was in the index
\* before), and the index holds a record.
C3_Witness ==
  /\ rx.pc = "done"
  /\ Len(EntriesIn(fs)) >= 1
  /\ \E p \in DOMAIN fs : fs[p].tags.MIMEType = MimeGif

\* C4: a reindex never raises because of metadata read failures; when it
\* has completed, with k of the n enumerated files failing, it has warned
\* once per failing file and the index holds n - k records, none of them
\* for a failing file.
C4_ReindexResilient ==
  /\ rx.pc # "failed"
  /\ rx.pc = "done" =>
       /\ Len(rx.warnings) = Cardinality(Unreadable)
       /\ { rx.warnings[i] : i \in 1..Len(rx.warnings) } = Unreadable
       /\ Len(EntriesIn(fs)) = Len(rx.files) - Cardinality(Unreadable)
       /\ \A p \in Unreadable : BaseName(p) \notin FilenamesIn(fs)

\* C4 witness: a reindex has completed over two files, one of which failed.
C4_Witness ==
  /\ rx.pc = "done"
  /\ Len(rx.files) = 2
  /\ Cardinality(Unreadable) = 1

\* C5: when a reindex overwrites the index and the file system is exactly as
\* the previous reindex left it (no operation in between), the index reads
\* back as the same set of records as before the call.
C5_ReindexIdempotent ==
  [][(rx.pc = "writeFile" /\ rx'.pc = "done" /\ lastReindex.valid /\ lastReindex.untouched)
       => SameRecordSet(fs, fs')]_vars

\* C5 witness: a reindex has completed right after another one, and the
\* index holds a record.
C5_Witness ==
  /\ rx.pc = "done"
  /\ lastReindex.repeated
  /\ Len(EntriesIn(fs)) >= 1

\* C6: every addToIndex makes the index read back, through the line parser
\* of search, as the records read before followed by the appended record
\* with its filename, mimeType, width, height and keywords.
C6_AppendRoundTrip ==
  [][\A r \in Requests :
       (gen[r].pc = "addToIndex" /\ gen'[r].pc = "done")
         => ReadsBackAppended(fs, fs', RecordOf(gen[r]))]_vars

\* C6 witness: after a reindex wrote the index, appends have brought it to
\* two records, the last with the keywords that need escaping.
C6_Witness ==
  /\ lastReindex.valid
  /\ Len(EntriesIn(fs)) = 2
  /\ \E r \in Requests :
       /\ gen[r].pc = "done"
       /\ gen[r].input.keywords = Some(<<KwPlain, KwTricky, KwBackslash>>)
       /\ EntriesIn(fs)[2] = RecordOf(gen[r])

\* C7: within a generate request each collaborator is called at most once
\* and in order: the image write is issued after the synthesis returned,
\* the EXIF write after the image file exists, the index append after the
\* EXIF write returned or failed; and a request whose file is not written
\* has no record in the index.
C7_GenerateOrdered ==
  \A r \in Requests :
    LET g == gen[r]
        path == FilePath(OutDir, g.filename)
    IN /\ g.calls.synth <= 1 /\ g.calls.write <= 1 /\ g.calls.exif <= 1 /\ g.calls.append <= 1
       /\ g.calls.write = 1 => (g.calls.synth = 1 /\ g.filename # <<>>)
       /\ g.calls.exif = 1 => (g.calls.write = 1 /\ path \in DOMAIN fs)
       /\ g.calls.append = 1 =>
            /\ g.calls.exif = 1
            /\ g.warnings = 1 \/ fs[path].tags.ImageDescription = g.input.prompt.v
       /\ (g.filename # <<>> /\ path \notin DOMAIN fs) => g.filename \notin FilenamesIn(fs)

\* C7 witness: one request has completed, another has its filename and
\* waits for its image write, and the index exists.
C7_Witness ==
  /\ IndexExists
  /\ \E r, q \in Requests : gen[r].pc = "done" /\ gen[q].pc = "writeFile"

\* C8: a request that has issued its EXIF write never fails; when the EXIF
\* write failed there is one warning, the image file is kept, and once the
\* request is done it returned the saved path and the index holds exactly
\* one record of its file.
C8_ExifFailureTolerated ==
  \A r \in Requests :
    LET g == gen[r]
        path == FilePath(OutDir, g.filename)
    IN /\ g.warnings <= 1
       /\ g.calls.exif = 1 => g.pc # "failed"
       /\ g.warnings = 1 => (g.pc \in {"addToIndex", "done"} /\ path \in DOMAIN fs)
       /\ (g.warnings = 1 /\ g.pc = "done") =>
            (g.path = path /\ g.error = "" /\ RecordCount(fs, g.filename) = 1)

\* C8 witness: a request has completed after its EXIF write failed.
C8_Witness == \E r \in Requests : gen[r].pc = "done" /\ gen[r].warnings = 1

\* C9: the only step of a request whose prompt is absent or empty is the
\* one that fails it with "Prompt is required"; no collaborator has been
\* called and the file system is unchanged.
C9_PromptRequired ==
  [][\A r \in Requests :
       (gen'[r] # gen[r] /\ gen'[r].pc # "returned" /\ gen'[r].input.prompt \in {None, Some(<<>>)})
         => /\ gen[r].pc = "idle"
            /\ gen'[r].pc = "failed"
            /\ gen'[r].error = "Prompt is required"
            /\ gen'[r].calls = NoCalls
            /\ fs' = fs]_vars

\* C9 witness: a request with an absent prompt and one with an empty prompt
\* have both failed.
C9_Witness ==
  \E r, q \in Requests :
    /\ gen[r].pc = "failed" /\ gen[r].input.prompt = None
    /\ gen[q].pc = "failed" /\ gen[q].input.prompt = Some(<<>>)

\* C10: the synthesis collaborator is called at most once per request, and
\* a request that failed for want of an online client or in the synthesis
\* call has written no file and appended no record.
C10_SynthesisFailure ==
  \A r \in Requests :
    LET g == gen[r]
    IN /\ g.calls.synth <= 1
       /\ (g.pc = "failed" /\ g.error \in {"no online client", "synthesis"}) =>
            /\ g.calls.write = 0 /\ g.calls.exif = 0 /\ g.calls.append = 0
            /\ NoTraceOf(fs, r)

\* C10 witness: a request has failed in the synthesis call or for want of
\* a client, and a request issued after it has succeeded.
C10_Witness ==
  \E r, q \in Requests :
    /\ gen[r].pc = "failed" /\ gen[r].error \in {"no online client", "synthesis"}
    /\ gen[q].pc = "done"
    /\ q > r

\* The words of s: its maximal runs of characters that are not white
\* space, in order; a string of white space alone has none.
WordsOf(s) ==
  LET starts == { i \in 1..Len(s) : s[i] \notin WhiteSpace /\ (i = 1 \/ s[i - 1] \in WhiteSpace) }
      endOf(i) == CHOOSE j \in i..Len(s) :
                    /\ \A k \in i..j : s[k] \notin WhiteSpace
                    /\ j = Len(s) \/ s[j + 1] \in WhiteSpace
      nth(k) == CHOOSE i \in starts : Cardinality({ j \in starts : j < i }) = k - 1
  IN [k \in 1..Cardinality(starts) |-> SubSeq(s, nth(k), endOf(nth(k)))]

\* The score of the three-step rule over the words of the lower-cased
\* strings, 0 when neither string has a word.
ReferenceScore(query, candidate) ==
  LET q == toLowerCase(query)
      c == toLowerCase(candidate)
      qWords == WordsOf(q)
      cWords == WordsOf(c)
      found == Cardinality({ i \in 1..Len(qWords) : \E j \in 1..Len(cWords) : cWords[j] = qWords[i] })
  IN IF q = c THEN ScoreExact
     ELSE IF includes(q, c) \/ includes(c, q) THEN ScorePartial
     ELSE IF Len(qWords) = 0 /\ Len(cWords) = 0 THEN [n |-> 0, d |-> 1]
     ELSE [n |-> found, d |-> MathMax(Len(qWords), Len(cWords))]

\* C16, as stated: similarity of the empty string with the empty string is 0.
C16_EmptyScoresZero ==
  (sim.pc = "done" /\ sim.a = <<>> /\ sim.b = <<>>) => sim.score.n = 0

\* C16, amended: similarity of the empty string with the empty string is
\* 1.0, the score of equal strings.
C16_EmptyScoresOne ==
  (sim.pc = "done" /\ sim.a = <<>> /\ sim.b = <<>>) => ScoreEqual(sim.score, ScoreExact)

\* C16 witness: similarity has been called with two empty strings.
C16_Witness == sim.pc = "done" /\ sim.a = <<>> /\ sim.b = <<>>

\* C17: every score lies in [0, 1] and is the score of the three-step rule:
\* 1.0 for equal lower-cased strings, else 0.8 when one contains the other,
\* else the number of query words found among the candidate's words over
\* the larger of the two word counts.
C17_ScoreIsReference ==
  sim.pc = "done" =>
    /\ sim.score.d > 0 /\ 0 <= sim.score.n /\ sim.score.n <= sim.score.d
    /\ ScoreEqual(sim.score, ReferenceScore(sim.a, sim.b))

\* C11: a search that found no index file has failed with the "No index
\* found ... Run /image reindex first." error and returned nothing, and a
\* search made while the index file exists has not failed.
C11_NoIndexError ==
  /\ sr.pc = "failed" =>
       /\ ~IndexExists
       /\ sr.error = NoIndexError(IndexPath(OutDir))
       /\ sr.indexContent = None
  /\ sr.pc = "done" => IndexExists

\* C11 witness: a search is done on the index a reindex of a directory
\* without images wrote.
C11_Witness ==
  /\ sr.pc = "done"
  /\ rx.runs >= 1
  /\ fs[IndexPath(OutDir)].text = <<NL>>

\* The lines of a text whose lines each end with a newline.
TerminatedLines(text) ==
  IF text = <<>> THEN <<>> ELSE split(SubSeq(text, 1, Len(text) - 1), NL)

\* line is one serialized ImageRecord: an object with a string filename, a
\* string mimeType, numbers width and height and an array of strings
\* keywords.
IsRecordLine(line) ==
  LET e == parseLine(line)
  IN /\ e.ok
     /\ e.filename.present /\ e.filename.v.t = "str"
     /\ e.mimeType.present /\ e.mimeType.v.t = "str"
     /\ e.width.present /\ e.width.v.t = "num"
     /\ e.height.present /\ e.height.v.t = "num"
     /\ \A i \in 1..Len(e.keywords.v.v) : e.keywords.v.v[i].t = "str"

\* C14, as stated: whenever the index file exists, its content is a
\* sequence of newline-terminated lines, each one serialized ImageRecord,
\* with no blank line.
C14_IndexIsRecordLines ==
  IndexExists =>
    LET text == fs[IndexPath(OutDir)].text
    IN /\ text # <<>> => text[Len(text)] = NL
       /\ \A i \in 1..Len(TerminatedLines(text)) : IsRecordLine(TerminatedLines(text)[i])

\* C15, as stated: search parses only non-empty lines and warns of none,
\* the index being one that reindex and append alone produced.
C15_NoWarningOnOwnIndex ==
  sr.pc = "done" =>
    /\ \A i \in 1..Len(searchLines(sr.indexContent.v)) : searchLines(sr.indexContent.v)[i] # <<>>
    /\ searchReturn.warnings = <<>>

\* C20, as stated: a search with a non-empty query returns no record whose
\* keyword list is empty.
C20_EmptyKeywordsNeverMatch ==
  (sr.pc = "done" /\ sr.query # <<>>) =>
    \A i \in 1..Len(searchReturn.results) : searchReturn.results[i].keywords.v.v # <<>>

\* The result the search contract describes: of the entries read in file
\* order those that score above 0, the k-th result being the one that k - 1
\* others precede (by a greater score, or by an equal score and an earlier
\* line), cut to the limit.
ReferenceResults(targetDir, indexContent, query, limit) ==
  LET entries == searchEntries(indexContent)
      score(i) == similarity(query, keywordText(entries[i]))
      kept == { i \in 1..Len(entries) : score(i).n > 0 }
      before(j, i) ==
        \/ ScoreGreater(score(j), score(i))
        \/ ScoreEqual(score(j), score(i)) /\ j < i
      rank(i) == Cardinality({ j \in kept : before(j, i) }) + 1
      count == IF limit < Cardinality(kept) THEN limit ELSE Cardinality(kept)
  IN [k \in 1..count |->
        LET i == CHOOSE j \in kept : rank(j) = k
        IN resultOf(targetDir, [entry |-> entries[i], score |-> score(i)])]

\* C12, as stated: the lines that are no JSON or no ImageRecord are the
\* lines warned of, and the results are those of a search over the
\* well-formed lines alone.
C12_MalformedSkipped ==
  sr.pc = "done" =>
    LET lines == searchLines(sr.indexContent.v)
        wellFormed == SelectSeq(lines, IsRecordLine)
    IN /\ searchReturn.warnings = SelectSeq(lines, LAMBDA line : ~IsRecordLine(line))
       /\ searchReturn.results =
            searchOutcome(getOutputDirectory, join(wellFormed, <<NL>>), sr.query,
                          limitOrDefault(sr.limit)).results

\* C13: the results of a search that is done are the reference results:
\* the parsed records in file order that score above 0, by descending
\* score with ties in file order, the first min(limit, count) of them,
\* limit being 10 when omitted.
C13_SearchIsReference ==
  sr.pc = "done" =>
    searchReturn.results =
      ReferenceResults(getOutputDirectory, sr.indexContent.v, sr.query,
                       IF sr.limit.present THEN sr.limit.v ELSE 10)

\* C13 witness: a search without limit is done over an index of more
\* than 10 matching records, and its first result is not the first record.
C13_Witness ==
  /\ sr.pc = "done" /\ ~sr.limit.present /\ sr.query = KwPlain
  /\ Len(searchEntries(sr.indexContent.v)) > 10
  /\ Len(searchReturn.results) = 10
  /\ searchReturn.results[1].filename # searchEntries(sr.indexContent.v)[1].filename

\* C18: the size a generate request passed to generateImage, and the width
\* and height of the record a request that is done appended, are those of
\* its aspectRatio: 1536 wide for "wide", 1536 high for "tall", 1024
\* otherwise, also for an omitted or unrecognized aspectRatio.
C18_SizeFromAspectRatio ==
  \A r \in Requests :
    LET a == gen[r].input.aspectRatio
        w == IF a.present /\ a.v = "wide" THEN 1536 ELSE 1024
        h == IF a.present /\ a.v = "tall" THEN 1536 ELSE 1024
        entries == EntriesIn(fs)
        own == { i \in 1..Len(entries) : entries[i].filename = Some([t |-> "str", v |-> gen[r].filename]) }
    IN /\ gen[r].calls.synth >= 1 =>
            gen[r].size = StringifyNumber(w) \o <<"x">> \o StringifyNumber(h)
       /\ gen[r].pc = "done" =>
            /\ own # {}
            /\ \A i \in own :
                 /\ entries[i].width = Some([t |-> "num", v |-> w])
                 /\ entries[i].height = Some([t |-> "num", v |-> h])

\* C18 witness: a request with an unrecognized aspectRatio is done, after
\* one with aspectRatio "wide" has returned.
C18_Witness ==
  \E r, q \in Requests :
    /\ gen[r].pc = "done"
    /\ gen[r].input.aspectRatio = Some("panorama")
    /\ gen[q].pc = "returned"
    /\ \E i \in 1..Len(EntriesIn(fs)) : EntriesIn(fs)[i].width = Some([t |-> "num", v |-> 1536])

\* C19, as stated: a request that is done and was given an outputDirectory
\* has written its image file under that directory and appended its
\* record to the image_index.json of that directory.
C19_OutputDirectoryOverrides ==
  \A r \in Requests :
    (gen[r].pc = "done" /\ gen[r].input.outputDirectory.present) =>
      LET directory == gen[r].input.outputDirectory.v
      IN /\ FilePath(directory, gen[r].filename) \in DOMAIN fs
         /\ IndexPath(directory) \in DOMAIN fs
         /\ \E i \in 1..Len(searchEntries(fs[IndexPath(directory)].text)) :
              searchEntries(fs[IndexPath(directory)].text)[i] = RecordOf(gen[r])

\* The word list split(/\s+/) makes of the lower-cased s holds the same
\* word at two places; the empty segments that leading and trailing white
\* space leave count as words of the list.
HasRepeatedWord(s) ==
  LET words == splitWhiteSpace(toLowerCase(s), 1, <<>>)
  IN \E i, j \in 1..Len(words) : i < j /\ words[i] = words[j]

\* C22, as stated: the score of a against b is the score of b against a,
\* for all strings, also those with a repeated word.
C22_Symmetric ==
  sim.pc = "done" => ScoreEqual(sim.score, similarity(sim.b, sim.a))

\* C22, amended: the score of a against b is the score of b against a
\* whenever neither string's word list holds a repeated word.
C22_SymmetricWithoutRepeats ==
  (sim.pc = "done" /\ ~HasRepeatedWord(sim.a) /\ ~HasRepeatedWord(sim.b)) =>
    ScoreEqual(sim.score, similarity(sim.b, sim.a))

\* C22 witness: two strings without a repeated word, neither containing
\* the other, have been scored by their words and share one.
C22_Witness ==
  /\ sim.pc = "done"
  /\ ~HasRepeatedWord(sim.a) /\ ~HasRepeatedWord(sim.b)
  /\ ~includes(toLowerCase(sim.a), toLowerCase(sim.b))
  /\ ~includes(toLowerCase(sim.b), toLowerCase(sim.a))
  /\ sim.score.n > 0

\* C21, as stated: when a reindex has completed, every image file of the
\* directory whose metadata is readable has a record in the index. The
\* image files of the directory are the files of the generate requests
\* that succeeded before the reindex, whatever media type they were given.
C21_GeneratedFilesReindexed ==
  rx.pc = "done" =>
    \A p \in DOMAIN fs :
      (p # IndexPath(OutDir) /\ DirName(p) = OutDir /\ fs[p].tags.readable) =>
        BaseName(p) \in FilenamesIn(fs)

\* C23: when two generate requests have both succeeded with no reindex
\* run, however their steps interleaved, their filenames differ, both image
\* files exist with the metadata of their own request, and the index holds
\* the record of each.
C23_ConcurrentGeneratesKeepBoth ==
  \A r, q \in Requests :
    (r # q /\ gen[r].pc = "done" /\ gen[q].pc = "done" /\ rx.runs = 0) =>
      /\ gen[r].filename # gen[q].filename
      /\ gen[r].path # gen[q].path
      /\ \A g \in {gen[r], gen[q]} :
           /\ g.path \in DOMAIN fs
           /\ fs[g.path].tags.ImageWidth = g.width
           /\ fs[g.path].tags.ImageHeight = g.height
           /\ \E i \in 1..Len(EntriesIn(fs)) : EntriesIn(fs)[i] = RecordOf(g)

\* C23 witness: two requests have both succeeded with no reindex run, and
\* the one that started later appended its record first.
C23_Witness ==
  \E r, q \in Requests :
    /\ r < q /\ gen[r].pc = "done" /\ gen[q].pc = "done" /\ rx.runs = 0
    /\ \E i, j \in 1..Len(EntriesIn(fs)) :
         /\ i < j
         /\ EntriesIn(fs)[i] = RecordOf(gen[q])
         /\ EntriesIn(fs)[j] = RecordOf(gen[r])

====
